---- MODULE Spec2Model ----
(***************************************************************************)
(* WavesLab: the JSON-backed repository of WaveNodes and VirtualUsers      *)
(* (core/storage/WavesLabRepository.py) and the simulation loop that       *)
(* reports the active nodes (server/simulation/Simulation.py).             *)
(*                                                                         *)
(* The specifications share the variables below:                           *)
(*   SpecCalls  whole repository calls, one after another, on every store  *)
(*              and argument of the bounded input sets;                    *)
(*   SpecRepo   the same calls issued by several threads, step by step     *)
(*              (lock, load, temp-file write, replace), with crashes;      *)
(*   SpecSim    the SimulationManager: start, stop, the loop and its       *)
(*              dispatch tasks, over a store that start/stop calls change; *)
(*   SpecSimFair, SpecStopFair  the SimulationManager over a store nobody  *)
(*              changes, with a fair event loop;                           *)
(*   SpecSend   _send_node_request called on its own, on every node,       *)
(*              client and answer of the destination.                      *)
(***************************************************************************)
EXTENDS Integers, Sequences, FiniteSets, TLC

VARIABLES
    nodesFile,   \* content of nodes.json
    usersFile,   \* content of users.json
    tmpFile,     \* content of nodes.json.tmp
    calls,       \* number of repository calls issued so far
    last,        \* the repository call that returned last
    prev,        \* the repository call that returned before it
    initOk,      \* the store at construction had no dangling assigned_user
    lock,        \* WavesLabRepository._lock: the thread holding it
    pc,          \* where each thread is in its repository call
    req,         \* the call each thread is making
    res,         \* what each thread computed from the dictionaries it loaded
    serial,      \* nodes.json had the committed calls run one after another
    inflight,    \* the latest _write_json_atomic: file before, data, replaced
    crashedAt,   \* where the writing thread was when the process last died
    running,     \* SimulationManager.running
    client,      \* SimulationManager.client: the AsyncClient it refers to
    clients,     \* every AsyncClient created so far: open or closed
    loop,        \* SimulationManager.loop: the task it refers to
    loops,       \* every _simulation_loop task created so far
    stops,       \* the stop() coroutine suspended on each loop task, if any
    sent         \* the latest _send_node_request called on its own (SpecSend)

storeVars == <<nodesFile, usersFile, tmpFile>>
callVars == <<calls, last, prev, initOk>>
threadVars == <<lock, pc, req, res, serial, inflight, crashedAt>>
simVars == <<running, client, clients, loop, loops, stops, sent>>

-----------------------------------------------------------------------------
(* Bounds of the model *)

MaxCalls == 2      \* repository calls in a behaviour
MaxStarts == 2     \* calls of SimulationManager.start in a behaviour

-----------------------------------------------------------------------------
(* Values *)

None == "None"                      \* Python's None
NodeIds == {"n1", "n2"}             \* ids of the records of nodes.json
UnknownId == "nx"                   \* an id no record carries
IdArgs == NodeIds \cup {UnknownId}
UserArgs == {None, "", "alice", "bob"}
UrlArgs == {"", "http://e"}

EmptyDict == [x \in {} |-> None]

\* A file is a complete JSON document or one json.load cannot parse.
Unreadable == [complete |-> FALSE, doc |-> EmptyDict]
File(d) == [complete |-> TRUE, doc |-> d]
NoFile == [complete |-> FALSE, doc |-> [x \in {"absent"} |-> None]]

\* str.lower() on the status strings a nodes.json may carry
Lower(s) ==
    CASE s = "ON" -> "on"
      [] s = "OFF" -> "off"
      [] OTHER -> s

\* NodeStatus member name, as _save_nodes writes it (node.status.name)
StatusName(status) == IF status = "on" THEN "ON" ELSE "OFF"

\* _load_nodes: {} on any error, else the records keyed by id, with a null
\* endpoint_url normalised to "" and the status lowercased.
LoadNodes(file) ==
    IF ~file.complete
    THEN EmptyDict
    ELSE [id \in DOMAIN file.doc |->
            [status |-> Lower(file.doc[id].status),
             assigned_user |-> file.doc[id].assigned_user,
             endpoint_url |-> IF file.doc[id].endpoint_url = None
                              THEN ""
                              ELSE file.doc[id].endpoint_url]]

\* _load_users: {} on any error, else the usernames of users.json
LoadUsers(file) == IF ~file.complete THEN {} ELSE file.doc

\* the document _save_nodes hands to _write_json_atomic
SaveNodes(nodes) ==
    File([id \in DOMAIN nodes |->
            [status |-> StatusName(nodes[id].status),
             assigned_user |-> nodes[id].assigned_user,
             endpoint_url |-> nodes[id].endpoint_url]])

\* Python truthiness of the optional user_name
Truthy(user_name) == user_name # None /\ user_name # ""

Result(ok, msg, nodes, save) ==
    [nodes |-> nodes, ok |-> ok, msg |-> msg, save |-> save]

\* start_node without the "already running" return
StartNode_NoAlreadyRunning(nodes, ufile, node_id, user_name) ==
    IF node_id \notin DOMAIN nodes
    THEN Result(FALSE, "node_not_found", nodes, FALSE)
    ELSE IF Truthy(user_name) /\ user_name \notin LoadUsers(ufile)
    THEN Result(FALSE, "user_not_found", nodes, FALSE)
    ELSE Result(TRUE, "started",
                [nodes EXCEPT ![node_id] =
                    [@ EXCEPT !.status = "on",
                              !.assigned_user =
                                  IF Truthy(user_name) THEN user_name ELSE @]],
                TRUE)

\* start_node without the validation of user_name
StartNode_NoUserCheck(nodes, ufile, node_id, user_name) ==
    IF node_id \notin DOMAIN nodes
    THEN Result(FALSE, "node_not_found", nodes, FALSE)
    ELSE IF nodes[node_id].status = "on"
    THEN Result(TRUE, "already_running", nodes, FALSE)
    ELSE Result(TRUE, "started",
                [nodes EXCEPT ![node_id] =
                    [@ EXCEPT !.status = "on",
                              !.assigned_user =
                                  IF Truthy(user_name) THEN user_name ELSE @]],
                TRUE)

\* start_node that assigns user_name before it validates it
StartNode_AssignFirst(nodes, ufile, node_id, user_name) ==
    IF node_id \notin DOMAIN nodes
    THEN Result(FALSE, "node_not_found", nodes, FALSE)
    ELSE IF nodes[node_id].status = "on"
    THEN Result(TRUE, "already_running", nodes, FALSE)
    ELSE IF Truthy(user_name) /\ user_name \notin LoadUsers(ufile)
    THEN Result(FALSE, "user_not_found",
                [nodes EXCEPT ![node_id] = [@ EXCEPT !.assigned_user = user_name]],
                TRUE)
    ELSE Result(TRUE, "started",
                [nodes EXCEPT ![node_id] =
                    [@ EXCEPT !.status = "on",
                              !.assigned_user =
                                  IF Truthy(user_name) THEN user_name ELSE @]],
                TRUE)

\* start_node, between the load and the save: the returned (ok, message),
\* the node dictionary after it and whether _save_nodes is called.
StartNode(nodes, ufile, node_id, user_name) ==
    IF node_id \notin DOMAIN nodes
    THEN Result(FALSE, "node_not_found", nodes, FALSE)
    ELSE IF nodes[node_id].status = "on"
    THEN Result(TRUE, "already_running", nodes, FALSE)
    ELSE IF Truthy(user_name) /\ user_name \notin LoadUsers(ufile)
    THEN Result(FALSE, "user_not_found", nodes, FALSE)
    ELSE Result(TRUE, "started",
                [nodes EXCEPT ![node_id] =
                    [@ EXCEPT !.status = "on",
                              !.assigned_user =
                                  IF Truthy(user_name) THEN user_name ELSE @]],
                TRUE)

\* stop_node that leaves assigned_user alone
StopNode_KeepUser(nodes, node_id) ==
    IF node_id \notin DOMAIN nodes
    THEN Result(FALSE, "node_not_found", nodes, FALSE)
    ELSE IF nodes[node_id].status = "off"
    THEN Result(TRUE, "already_stopped", nodes, FALSE)
    ELSE Result(TRUE, "stopped",
                [nodes EXCEPT ![node_id] = [@ EXCEPT !.status = "off"]],
                TRUE)

\* stop_node, between the load and the save
StopNode(nodes, node_id) ==
    IF node_id \notin DOMAIN nodes
    THEN Result(FALSE, "node_not_found", nodes, FALSE)
    ELSE IF nodes[node_id].status = "off"
    THEN Result(TRUE, "already_stopped", nodes, FALSE)
    ELSE Result(TRUE, "stopped",
                [nodes EXCEPT ![node_id] =
                    [@ EXCEPT !.status = "off", !.assigned_user = None]],
                TRUE)

\* update_node_endpoint that saves the dictionary it loaded when the node is
\* missing
UpdateNodeEndpoint_SavesWhenMissing(nodes, node_id, endpoint_url) ==
    IF node_id \notin DOMAIN nodes
    THEN Result(FALSE, "node_not_found", nodes, TRUE)
    ELSE Result(TRUE, "updated",
                [nodes EXCEPT ![node_id] = [@ EXCEPT !.endpoint_url = endpoint_url]],
                TRUE)

\* update_node_endpoint that also turns the node ON
UpdateNodeEndpoint_TurnsOn(nodes, node_id, endpoint_url) ==
    IF node_id \notin DOMAIN nodes
    THEN Result(FALSE, "node_not_found", nodes, FALSE)
    ELSE Result(TRUE, "updated",
                [nodes EXCEPT ![node_id] =
                    [@ EXCEPT !.endpoint_url = endpoint_url, !.status = "on"]],
                TRUE)

\* update_node_endpoint, between the load and the save (ok: a node is returned)
UpdateNodeEndpoint(nodes, node_id, endpoint_url) ==
    IF node_id \notin DOMAIN nodes
    THEN Result(FALSE, "node_not_found", nodes, FALSE)
    ELSE Result(TRUE, "updated",
                [nodes EXCEPT ![node_id] = [@ EXCEPT !.endpoint_url = endpoint_url]],
                TRUE)

\* get_active_nodes: the ids of the loaded nodes whose status is ON
GetActiveNodes(nodes) == {id \in DOMAIN nodes : nodes[id].status = "on"}

\* A call: the operation and its arguments
Call(op, id, user, url) == [id |-> id, op |-> op, user |-> user, url |-> url]

MutatorCalls ==
    {Call("start_node", id, u, None) : id \in IdArgs, u \in UserArgs}
    \cup {Call("stop_node", id, None, None) : id \in IdArgs}
    \cup {Call("update_node_endpoint", id, None, url) : id \in IdArgs, url \in UrlArgs}

\* the in-memory part of a mutator, on the loaded dictionaries
Outcome(c, nodes, ufile) ==
    CASE c.op = "start_node" -> StartNode(nodes, ufile, c.id, c.user)
      [] c.op = "stop_node" -> StopNode(nodes, c.id)
      [] OTHER -> UpdateNodeEndpoint(nodes, c.id, c.url)


-----------------------------------------------------------------------------
(* _write_json_atomic(path, data), one statement at a time.  fs is the pair  *)
(* of files it touches: the destination and the temp file beside it.         *)

Fs(nodes, tmp) == [nodes |-> nodes, tmp |-> tmp]

\* a write that opens the destination itself and dumps into it
WriteStep_InPlace(fs, data, k) ==
    CASE k = 1 -> Fs(Unreadable, fs.tmp)
      [] k = 2 -> Fs(data, fs.tmp)
      [] OTHER -> fs

\* step 1: open(tmp_path, "w") creates or truncates the temp file
\* step 2: json.dump, flush and fsync complete the temp file
\* step 3: os.replace swaps the temp file into place
WriteStep(fs, data, k) ==
    CASE k = 1 -> Fs(fs.nodes, Unreadable)
      [] k = 2 -> Fs(fs.nodes, data)
      [] OTHER -> Fs(fs.tmp, NoFile)

WriteSteps == 3

\* the files after the first k statements ran (k < WriteSteps: the next one
\* raised, and _save_nodes logged the error)
RECURSIVE WriteJsonAtomic(_, _, _)
WriteJsonAtomic(fs, data, k) ==
    IF k = 0 THEN fs ELSE WriteStep(WriteJsonAtomic(fs, data, k - 1), data, k)

-----------------------------------------------------------------------------
(* The record kept of a call that returned *)

NoCall == [ok |-> FALSE, msg |-> "none", call |-> Call("none", None, None, None),
           pre |-> EmptyDict, post |-> EmptyDict, wrote |-> 0]

\* what is kept of the call before the last one
Summary(l) == [id |-> l.call.id, ok |-> l.ok, msg |-> l.msg, op |-> l.call.op,
               wrote |-> l.wrote]

\* every assigned_user of the file names a user of users.json
NoDangling(nfile, ufile) ==
    \A id \in DOMAIN LoadNodes(nfile) :
        LoadNodes(nfile)[id].assigned_user # None
            => LoadNodes(nfile)[id].assigned_user \in LoadUsers(ufile)

-----------------------------------------------------------------------------
(* SimulationManager: its fields after __init__ *)

SimulationInterval == 30     \* self._simulation_interval
ErrorPause == 1              \* asyncio.sleep(1) after an unexpected error

LoopIds == 1..MaxStarts      \* the k-th start() creates client k and task k
NoClient == 0                \* self.client = None
NoTask == 0                  \* self.loop = None

\* the answers the destination may give to a POST
Responses == {"200", "500", "timeout", "network_error"}

NoTasks == [n \in {} |-> "pending"]
NoStats == [success |-> 0, error |-> 0]

\* a _simulation_loop task: where it is suspended, whether cancel() was
\* called on it, nodes.json as its latest query found it, the dispatch tasks
\* of its latest tick, the counts it logged, the sleep it is in, a bit that
\* flips at every tick that raises (cleared by a tick that does not), whether
\* a tick began before the last had settled, and how the task ended
NoLoop == [pc |-> "none", cancel |-> FALSE, seen |-> NoFile, tasks |-> NoTasks,
           stats |-> NoStats, sleep |-> 0, bit |-> 0, overlap |-> FALSE,
           left |-> "none"]

\* no _send_node_request was called on its own
NoSend == [client |-> NoClient, node |-> None, answer |-> None,
           out |-> [status |-> None, result |-> "none", posts |-> 0, raised |-> None]]

SimIdle ==
    /\ sent = NoSend
    /\ running = "None"
    /\ client = NoClient
    /\ clients = [c \in {} |-> "open"]
    /\ loop = NoTask
    /\ loops = [l \in LoopIds |-> NoLoop]
    /\ stops = [l \in LoopIds |-> "none"]

-----------------------------------------------------------------------------
(* Threads of one process calling the repository (SpecRepo) *)

Threads == {"t1", "t2"}
NoThread == "nobody"

ReadOps == {"get_all_nodes", "get_node_by_id"}

\* the calls the threads draw from
ThreadCalls ==
    {Call("start_node", id, u, None) : id \in NodeIds, u \in {None, "alice"}}
    \cup {Call("stop_node", id, None, None) : id \in NodeIds}
    \cup {Call("update_node_endpoint", id, None, "http://e") : id \in {"n1"}}
    \cup {Call("get_all_nodes", None, None, None)}
    \cup {Call("get_node_by_id", id, None, None) : id \in {"n1"}}

NoReq == Call("none", None, None, None)
NoRes == Result(FALSE, "none", EmptyDict, FALSE)
NoWrite == [old |-> NoFile, new |-> NoFile, replaced |-> FALSE]

ThreadsIdle ==
    /\ lock = NoThread
    /\ pc = [t \in Threads |-> "idle"]
    /\ req = [t \in Threads |-> NoReq]
    /\ res = [t \in Threads |-> NoRes]
    /\ serial = NoFile
    /\ inflight = NoWrite
    /\ crashedAt = "none"

\* "with self._lock" lets a thread in when no thread holds the lock
LockAvailable_NoLock == TRUE

LockAvailable == lock = NoThread

\* get_all_nodes / get_node_by_id on the loaded dictionary
ReadNodes(c, nodes) ==
    IF c.op = "get_all_nodes"
    THEN Result(TRUE, "all", nodes, FALSE)
    ELSE Result(c.id \in DOMAIN nodes, "one",
                [id \in DOMAIN nodes \cap {c.id} |-> nodes[id]], FALSE)

\* what a call computes from the files it loads
Compute(c, nfile, ufile) ==
    IF c.op \in ReadOps
    THEN ReadNodes(c, LoadNodes(nfile))
    ELSE Outcome(c, LoadNodes(nfile), ufile)

\* nodes.json after call c ran alone on nodes.json = nfile
RunAlone(c, nfile, ufile) ==
    IF Compute(c, nfile, ufile).save
    THEN SaveNodes(Compute(c, nfile, ufile).nodes)
    ELSE nfile

InitRepoRecords ==
    {[status |-> "on", assigned_user |-> "alice", endpoint_url |-> None],
     [status |-> "OFF", assigned_user |-> None, endpoint_url |-> "http://d"]}

InitRepo ==
    /\ nodesFile \in {File(d) : d \in [NodeIds -> InitRepoRecords]}
    /\ usersFile = File({"alice"})
    /\ tmpFile = NoFile
    /\ calls = 0
    /\ last = NoCall
    /\ prev = Summary(NoCall)
    /\ initOk = NoDangling(nodesFile, usersFile)
    /\ lock = NoThread
    /\ pc = [t \in Threads |-> "idle"]
    /\ req = [t \in Threads |-> NoReq]
    /\ res = [t \in Threads |-> NoRes]
    /\ serial = nodesFile
    /\ inflight = NoWrite
    /\ crashedAt = "none"
    /\ SimIdle

\* a thread enters a repository method: "with self._lock:"
Acquire(t) ==
    /\ pc[t] = "idle"
    /\ calls < MaxCalls
    /\ LockAvailable
    /\ \E c \in ThreadCalls : req' = [req EXCEPT ![t] = c]
    /\ lock' = t
    /\ pc' = [pc EXCEPT ![t] = "load"]
    /\ calls' = calls + 1
    /\ UNCHANGED <<storeVars, last, prev, initOk, res, serial, inflight, crashedAt, simVars>>

\* _load_nodes (and _load_users), then the method's work on the dictionary
Load(t) ==
    /\ pc[t] = "load"
    /\ res' = [res EXCEPT ![t] = Compute(req[t], nodesFile, usersFile)]
    /\ pc' = [pc EXCEPT ![t] = IF res'[t].save THEN "write1" ELSE "return"]
    /\ inflight' = IF res'[t].save
                   THEN [old |-> nodesFile, new |-> SaveNodes(res'[t].nodes),
                         replaced |-> FALSE]
                   ELSE inflight
    /\ UNCHANGED <<storeVars, callVars, lock, req, serial, crashedAt, simVars>>

WritePc == [k \in 1..WriteSteps |-> CASE k = 1 -> "write1" [] k = 2 -> "write2" [] OTHER -> "write3"]

\* statement k of _write_json_atomic, called by _save_nodes
Write(t, k) ==
    /\ pc[t] = WritePc[k]
    /\ LET fs == WriteStep(Fs(nodesFile, tmpFile), SaveNodes(res[t].nodes), k)
       IN  /\ nodesFile' = fs.nodes
           /\ tmpFile' = fs.tmp
    /\ pc' = [pc EXCEPT ![t] = IF k < WriteSteps THEN WritePc[k + 1] ELSE "return"]
    /\ serial' = IF k = WriteSteps THEN RunAlone(req[t], serial, usersFile) ELSE serial
    /\ inflight' = IF k = WriteSteps THEN [inflight EXCEPT !.replaced = TRUE] ELSE inflight
    /\ UNCHANGED <<usersFile, callVars, lock, req, res, crashedAt, simVars>>

\* a statement of _write_json_atomic raises: _save_nodes logs and returns
WriteFault(t) ==
    /\ pc[t] \in {WritePc[k] : k \in 1..WriteSteps}
    /\ pc' = [pc EXCEPT ![t] = "return"]
    /\ UNCHANGED <<storeVars, callVars, lock, req, res, serial, inflight, crashedAt, simVars>>

\* the method returns and the with-block releases the lock
Return(t) ==
    /\ pc[t] = "return"
    /\ pc' = [pc EXCEPT ![t] = "idle"]
    /\ lock' = IF lock = t THEN NoThread ELSE lock
    /\ UNCHANGED <<storeVars, callVars, req, res, serial, inflight, crashedAt, simVars>>

\* the process dies with a call under way; the files stay as they are and
\* the next process starts with idle threads and a free lock
Crash ==
    /\ \E t \in Threads : pc[t] # "idle" /\ crashedAt' = pc[t]
    /\ pc' = [t \in Threads |-> "idle"]
    /\ lock' = NoThread
    /\ UNCHANGED <<storeVars, callVars, req, res, serial, inflight, simVars>>

NextRepo ==
    \/ \E t \in Threads : Acquire(t)
    \/ \E t \in Threads : Load(t)
    \/ \E t \in Threads, k \in 1..WriteSteps : Write(t, k)
    \/ \E t \in Threads : WriteFault(t)
    \/ \E t \in Threads : Return(t)
    \/ Crash

-----------------------------------------------------------------------------
(* SpecCalls: whole calls, one after another *)


InitStatuses == {"on", "OFF"}
InitUsers == {None, "alice", "bob"}
InitEndpoints == {None, "http://d"}

InitNodeRecords ==
    [status : InitStatuses, assigned_user : InitUsers, endpoint_url : InitEndpoints]

\* n1 starts as any record of the input sets, n2 as one of two records
OtherRecords ==
    {[status |-> "on", assigned_user |-> "alice", endpoint_url |-> "http://d"],
     [status |-> "OFF", assigned_user |-> None, endpoint_url |-> None]}

InitNodesFiles ==
    {File([id \in NodeIds |-> IF id = "n1" THEN r1 ELSE r2]) :
        r1 \in InitNodeRecords, r2 \in OtherRecords}
    \cup {Unreadable}
InitUsersFiles == {File({"alice"}), Unreadable}

\* the statements of _write_json_atomic after which a fault is drawn
\* (WriteSteps: no fault)
FaultPoints == {1, WriteSteps}


InitCalls ==
    /\ nodesFile \in InitNodesFiles
    /\ usersFile \in InitUsersFiles
    /\ tmpFile = NoFile
    /\ calls = 0
    /\ last = NoCall
    /\ prev = Summary(NoCall)
    /\ initOk = NoDangling(nodesFile, usersFile)
    /\ ThreadsIdle
    /\ SimIdle

\* One mutator call from the lock to the return.  k statements of
\* _write_json_atomic run before one raises (k = WriteSteps: none does).
DoCall(c, k) ==
    LET nodes == LoadNodes(nodesFile)
        r == Outcome(c, nodes, usersFile)
        fs == IF r.save
              THEN WriteJsonAtomic(Fs(nodesFile, tmpFile), SaveNodes(r.nodes), k)
              ELSE Fs(nodesFile, tmpFile)
    IN  /\ calls < MaxCalls
        /\ k \in FaultPoints
        /\ r.save \/ k = WriteSteps
        /\ nodesFile' = fs.nodes
        /\ tmpFile' = fs.tmp
        /\ calls' = calls + 1
        /\ prev' = Summary(last)
        /\ last' = [ok |-> r.ok, msg |-> r.msg, call |-> c,
                    pre |-> nodes, post |-> LoadNodes(fs.nodes),
                    wrote |-> IF r.save THEN k ELSE 0]
        /\ UNCHANGED <<usersFile, initOk, threadVars, simVars>>

StartCall == \E id \in IdArgs, u \in UserArgs, k \in 0..WriteSteps :
                DoCall(Call("start_node", id, u, None), k)
StopCall == \E id \in IdArgs, k \in 0..WriteSteps :
                DoCall(Call("stop_node", id, None, None), k)
UpdateCall == \E id \in IdArgs, url \in UrlArgs, k \in 0..WriteSteps :
                DoCall(Call("update_node_endpoint", id, None, url), k)

NextCalls == StartCall \/ StopCall \/ UpdateCall

-----------------------------------------------------------------------------
(* SimulationManager (SpecSim) *)

\* WaveNode.endpoint, the destination the simulation reads
NodeEndpoint(node) == node.endpoint_url

\* the fields NodeRequest requires, and the keywords _send_node_request
\* passes to its constructor
RequiredFields == {"node_name", "provision_rate"}
PassedFields == {"realTimeConsumption", "username"}

\* NodeRequest(...) validates: every required field is passed
NodeRequestValid(passed) == RequiredFields \subseteq passed

\* the classes an exception raised in _send_node_request is an instance of
\* (httpx.TimeoutException is a RequestError, pydantic's ValidationError an
\* Exception)
Bases(e) ==
    CASE e = "TimeoutException" -> {"TimeoutException", "RequestError", "Exception"}
      [] e = "RequestError" -> {"RequestError", "Exception"}
      [] OTHER -> {e, "Exception"}

\* the except clauses without the last one
ExceptClauses_NoCatchAll == {"TimeoutException", "RequestError"}

\* the except clauses of _send_node_request
ExceptClauses == {"TimeoutException", "RequestError", "Exception"}

\* the try block of _send_node_request with the keywords "passed" given to
\* NodeRequest, when the destination would answer resp: the POSTs made, the
\* status of the response received and the exception raised
TryBlock(passed, resp) ==
    IF ~NodeRequestValid(passed)
    THEN [status |-> None, posts |-> 0, raised |-> "ValidationError"]
    ELSE CASE resp = "timeout" ->
                [status |-> None, posts |-> 1, raised |-> "TimeoutException"]
           [] resp = "network_error" ->
                [status |-> None, posts |-> 1, raised |-> "RequestError"]
           [] OTHER ->
                [status |-> resp, posts |-> 1, raised |-> None]

\* the result of _send_node_request(node): "false" without a client; an
\* exception of the try block gives "false" when an except clause catches it
\* and escapes otherwise; a response gives "true" exactly on a 200
SendWith(cl, passed, resp) ==
    IF cl = NoClient
    THEN [status |-> None, result |-> "false", posts |-> 0, raised |-> None]
    ELSE LET t == TryBlock(passed, resp)
         IN  [status |-> t.status,
              result |-> IF t.raised # None
                         THEN IF Bases(t.raised) \cap ExceptClauses # {}
                              THEN "false" ELSE "raised"
                         ELSE IF t.status = "200" THEN "true" ELSE "false",
              posts |-> t.posts, raised |-> t.raised]

\* _send_node_request as the code calls NodeRequest
SendNodeRequest(cl, resp) == SendWith(cl, PassedFields, resp)

\* _send_requests_for_nodes: without the test of node.endpoint
FanOut_NoEndpointTest(nodes, active) == active

\* _send_requests_for_nodes: the nodes a task is created for
FanOut(nodes, active) == {id \in active : NodeEndpoint(nodes[id]) # ""}

\* the counts _send_requests_for_nodes logs: every result counted a success
CountResults_AllSuccess(tasks) ==
    [success |-> Cardinality(DOMAIN tasks), error |-> 0]

\* the counts _send_requests_for_nodes logs for the gathered results
CountResults(tasks) ==
    [success |-> Cardinality({n \in DOMAIN tasks : tasks[n] = "true"}),
     error |-> Cardinality(DOMAIN tasks)
                 - Cardinality({n \in DOMAIN tasks : tasks[n] = "true"})]

\* asyncio.gather has every result
Gathered(tasks) == \A n \in DOMAIN tasks : tasks[n] # "pending"

\* where the loop goes when "except Exception" caught an error: a break
AfterError_Break == [pc |-> "done", sleep |-> 0]

\* where the loop goes when "except Exception" caught an error
AfterError == [pc |-> "pause", sleep |-> ErrorPause]

Waiting(l) == loops[l].pc \in {"created", "sleep", "pause"}

\* a loop task that ended, and why: its locals are gone
Ended(t, why) == [NoLoop EXCEPT !.pc = "done", !.cancel = t.cancel,
                                !.overlap = t.overlap, !.left = why]

\* both nodes start ON with a destination, n1 assigned to alice; the store
\* calls below stop and restart n1 and clear or set n2's destination
InitSimFiles ==
    {File([id \in NodeIds |->
            [status |-> "ON", assigned_user |-> IF id = "n1" THEN "alice" ELSE None,
             endpoint_url |-> "http://e"]])}

InitSim ==
    /\ nodesFile \in InitSimFiles
    /\ usersFile = File({"alice"})
    /\ tmpFile = NoFile
    /\ calls = 0
    /\ last = NoCall
    /\ prev = Summary(NoCall)
    /\ initOk = NoDangling(nodesFile, usersFile)
    /\ ThreadsIdle
    /\ SimIdle

\* start(): a new client, running, a new loop task
Start ==
    /\ Cardinality(DOMAIN clients) < MaxStarts
    /\ LET k == Cardinality(DOMAIN clients) + 1
       IN  /\ client' = k
           /\ clients' = [c \in DOMAIN clients \cup {k} |->
                            IF c = k THEN "open" ELSE clients[c]]
           /\ loop' = k
           /\ loops' = [loops EXCEPT ![k] = [NoLoop EXCEPT !.pc = "created"]]
    /\ running' = "True"
    /\ UNCHANGED <<storeVars, callVars, threadVars, sent, stops>>

\* the loop task runs from "while self.running" to its next await: the query
\* of the active nodes and the creation of the tick's dispatch tasks
Tick(l) ==
    /\ Waiting(l)
    /\ ~loops[l].cancel
    /\ running = "True"
    /\ LET nodes == LoadNodes(nodesFile)
           made == FanOut(nodes, GetActiveNodes(nodes))
       IN  loops' = [loops EXCEPT ![l] =
                [@ EXCEPT !.seen = nodesFile,
                          !.tasks = [n \in made |-> "pending"],
                          !.stats = NoStats,
                          !.overlap = @ \/ ~Gathered(loops[l].tasks),
                          !.bit = 0,
                          !.pc = IF made # {} THEN "gather" ELSE "sleep",
                          !.sleep = IF made # {} THEN 0 ELSE SimulationInterval]]
    /\ UNCHANGED <<storeVars, callVars, threadVars, sent, running, client, clients, loop, stops>>

\* the same, when the query raises an unexpected error
TickRaises(l) ==
    /\ Waiting(l)
    /\ ~loops[l].cancel
    /\ running = "True"
    /\ loops' = [loops EXCEPT ![l] =
                IF AfterError.pc = "done"
                THEN Ended(@, "error")
                ELSE [@ EXCEPT !.seen = NoFile,
                               !.tasks = NoTasks,
                               !.stats = NoStats,
                               !.overlap = @ \/ ~Gathered(loops[l].tasks),
                               !.bit = 1 - @,
                               !.pc = AfterError.pc,
                               !.sleep = AfterError.sleep]]
    /\ UNCHANGED <<storeVars, callVars, threadVars, sent, running, client, clients, loop, stops>>

\* "while self.running" finds the flag cleared: the coroutine returns
LoopExit(l) ==
    /\ Waiting(l)
    /\ ~loops[l].cancel
    /\ running # "True"
    /\ loops' = [loops EXCEPT ![l] = Ended(@, "flag")]
    /\ UNCHANGED <<storeVars, callVars, threadVars, sent, running, client, clients, loop, stops>>

\* one dispatch task runs _send_node_request to its return
Dispatch(l, n) ==
    /\ loops[l].pc = "gather"
    /\ ~loops[l].cancel
    /\ n \in DOMAIN loops[l].tasks
    /\ loops[l].tasks[n] = "pending"
    /\ \E resp \in Responses :
        loops' = [loops EXCEPT ![l].tasks[n] =
                    SendNodeRequest(client, resp).result]
    /\ UNCHANGED <<storeVars, callVars, threadVars, sent, running, client, clients, loop, stops>>

\* asyncio.gather returns the results; the counts are logged and the loop
\* goes to asyncio.sleep(self._simulation_interval)
GatherDone(l) ==
    /\ loops[l].pc = "gather"
    /\ ~loops[l].cancel
    /\ Gathered(loops[l].tasks)
    /\ loops' = [loops EXCEPT ![l] =
                [@ EXCEPT !.stats = CountResults(loops[l].tasks),
                          !.pc = "sleep",
                          !.sleep = SimulationInterval]]
    /\ UNCHANGED <<storeVars, callVars, threadVars, sent, running, client, clients, loop, stops>>

\* CancelledError reaches the loop task where it waits: it breaks out of the
\* loop (or was never run, or is cancelled in the error pause)
Cancelled(l) ==
    /\ loops[l].cancel
    /\ loops[l].pc \notin {"none", "done"}
    /\ loops' = [loops EXCEPT ![l] = Ended(@, "cancel")]
    /\ UNCHANGED <<storeVars, callVars, threadVars, sent, running, client, clients, loop, stops>>

\* task.cancel(): a finished task is left alone; the dispatch tasks a
\* cancelled loop task waits for are cancelled with it
CancelTask(t) ==
    IF t.pc = "done"
    THEN t
    ELSE [t EXCEPT !.cancel = TRUE,
                   !.tasks = [n \in DOMAIN t.tasks |->
                                IF t.tasks[n] = "pending" THEN "cancelled"
                                ELSE t.tasks[n]]]

\* a stop() that never takes the early return
NotRunning_Never(r) == FALSE

\* "if not self.running": stop() returns at once, nothing is changed
NotRunning(r) == r \in {"None", "False"}

\* stop(), to its "await self.loop" (without a loop task there is no client
\* either, and it returns)
Stop ==
    /\ ~NotRunning(running)
    /\ running' = "False"
    /\ IF loop # NoTask
       THEN /\ loops' = [loops EXCEPT ![loop] = CancelTask(@)]
            /\ stops' = [stops EXCEPT ![loop] = "await_loop"]
       ELSE UNCHANGED <<loops, stops>>
    /\ UNCHANGED <<storeVars, callVars, threadVars, sent, client, clients, loop>>

\* stop() resumes when the loop task is done: "await self.client.aclose()"
StopClose(l) ==
    /\ stops[l] = "await_loop"
    /\ loops[l].pc = "done"
    /\ IF client # NoClient
       THEN /\ clients' = [clients EXCEPT ![client] = "closed"]
            /\ stops' = [stops EXCEPT ![l] = "aclose"]
       ELSE /\ stops' = [stops EXCEPT ![l] = "returned"]
            /\ UNCHANGED clients
    /\ UNCHANGED <<storeVars, callVars, threadVars, sent, running, client, loop, loops>>

\* stop() resumes after aclose: "self.client = None", and returns
StopReturn(l) ==
    /\ stops[l] = "aclose"
    /\ client' = NoClient
    /\ stops' = [stops EXCEPT ![l] = "returned"]
    /\ UNCHANGED <<storeVars, callVars, threadVars, sent, running, clients, loop, loops>>

\* the calls that change the store while the simulation runs
SimCalls ==
    {Call("start_node", "n1", "alice", None), Call("stop_node", "n1", None, None)}
    \cup {Call("update_node_endpoint", "n2", None, url) : url \in UrlArgs}

\* a repository call of the command line or the web API, from lock to return
StoreCall ==
    /\ calls < MaxCalls
    /\ \E c \in SimCalls :
        /\ Compute(c, nodesFile, usersFile).save
        /\ nodesFile' = WriteJsonAtomic(Fs(nodesFile, tmpFile),
                                        SaveNodes(Compute(c, nodesFile, usersFile).nodes),
                                        WriteSteps).nodes
    /\ calls' = calls + 1
    /\ UNCHANGED <<usersFile, tmpFile, last, prev, initOk, threadVars, simVars>>

LoopStep(l) ==
    \/ Tick(l)
    \/ LoopExit(l)
    \/ GatherDone(l)
    \/ Cancelled(l)
    \/ \E n \in NodeIds : Dispatch(l, n)

\* start(), stop() and the tasks of the event loop
NextTasks ==
    \/ Start
    \/ Stop
    \/ \E l \in LoopIds : StopClose(l)
    \/ \E l \in LoopIds : StopReturn(l)
    \/ \E l \in LoopIds : Tick(l)
    \/ \E l \in LoopIds : TickRaises(l)
    \/ \E l \in LoopIds : LoopExit(l)
    \/ \E l \in LoopIds, n \in NodeIds : Dispatch(l, n)
    \/ \E l \in LoopIds : GatherDone(l)
    \/ \E l \in LoopIds : Cancelled(l)

NextSim ==
    \/ NextTasks
    \/ StoreCall

-----------------------------------------------------------------------------
(* _send_node_request on its own (SpecSend) *)

\* any store of the input sets, and a manager with or without a client
InitSend ==
    /\ nodesFile \in InitNodesFiles
    /\ usersFile = File({"alice"})
    /\ tmpFile = NoFile
    /\ calls = 0
    /\ last = NoCall
    /\ prev = Summary(NoCall)
    /\ initOk = NoDangling(nodesFile, usersFile)
    /\ ThreadsIdle
    /\ sent = NoSend
    /\ running = "None"
    /\ client \in {NoClient, 1}
    /\ clients = [c \in {client} \ {NoClient} |-> "open"]
    /\ loop = NoTask
    /\ loops = [l \in LoopIds |-> NoLoop]
    /\ stops = [l \in LoopIds |-> "none"]

\* one call of _send_node_request for a node the fan-out makes a task for,
\* with the answer the destination would give
Send ==
    /\ \E n \in FanOut(LoadNodes(nodesFile), GetActiveNodes(LoadNodes(nodesFile))),
          resp \in Responses :
            sent' = [client |-> client, node |-> n, answer |-> resp,
                     out |-> SendNodeRequest(client, resp)]
    /\ UNCHANGED <<storeVars, callVars, threadVars,
                   running, client, clients, loop, loops, stops>>

NextSend == Send

vars == <<storeVars, callVars, threadVars, simVars>>

SpecCalls == InitCalls /\ [][NextCalls]_vars

SpecRepo == InitRepo /\ [][NextRepo]_vars

SpecSim == InitSim /\ [][NextSim]_vars

SpecSend == InitSend /\ [][NextSend]_vars

\* the simulation over a store nobody changes: the event loop runs every task
\* that is ready and every timer expires
SpecSimFair ==
    InitSim /\ [][NextTasks]_vars /\ \A l \in LoopIds : WF_vars(LoopStep(l))

\* the steps of the stop() suspended on loop task l
StopStep(l) == StopClose(l) \/ StopReturn(l)

\* the same, where a suspended stop() is resumed when what it awaits is done
\* and aclose() completes
SpecStopFair == SpecSimFair /\ \A l \in LoopIds : WF_vars(StopStep(l))

-----------------------------------------------------------------------------
(* Claims on whole calls (SpecCalls) *)

\* the last call's write of nodes.json, if it made one, ran to its end
LastPersisted == last.wrote \in {0, WriteSteps}
PrevPersisted == prev.wrote \in {0, WriteSteps}

\* the last two calls are start_node on the same node, which exists
TwoStarts ==
    /\ prev.op = "start_node"
    /\ last.call.op = "start_node"
    /\ prev.id = last.call.id
    /\ last.call.id \in DOMAIN last.pre

\* C3 as stated: for every existing node N and any optional usernames u1, u2,
\* start_node(N, u1) followed immediately by start_node(N, u2) returns ok=true
\* both times, and N is then ON with the assigned_user it had after the first
\* call.  (Stated on calls whose writes ran to their end.)
C3_AnyUser ==
    (TwoStarts /\ PrevPersisted /\ LastPersisted)
        => /\ prev.ok
           /\ last.ok
           /\ last.post[last.call.id].status = "on"
           /\ last.post[last.call.id].assigned_user
                  = last.pre[last.call.id].assigned_user

\* C3 amended: when start_node(N, u1) returns ok=true and its write of
\* nodes.json, if any, ran to its end, an immediately following
\* start_node(N, u2), for any u2, returns ok=true ("already running") and
\* changes nothing: N is ON with the assigned_user it had after the first call.
C3_SecondStartIsNoOp ==
    (TwoStarts /\ prev.ok /\ PrevPersisted)
        => /\ last.ok
           /\ last.msg = "already_running"
           /\ last.wrote = 0
           /\ last.post = last.pre
           /\ LoadNodes(nodesFile) = last.pre
           /\ last.post[last.call.id].status = "on"

C3_Witness ==
    /\ TwoStarts
    /\ prev.msg = "started"
    /\ prev.wrote = WriteSteps
    /\ last.call.user = "bob"
    /\ "bob" \notin LoadUsers(usersFile)
    /\ last.ok

\* C4 as stated: for every existing node N, whatever its prior status and
\* assigned_user, after stop_node(N) returns ok=true the persisted node N has
\* no assigned_user.  (Stated on calls whose write ran to its end.)
C4_AnyStatus ==
    (/\ last.call.op = "stop_node"
     /\ last.call.id \in DOMAIN last.pre
     /\ last.ok
     /\ LastPersisted)
        => LoadNodes(nodesFile)[last.call.id].assigned_user = None

\* C4 amended: after stop_node(N) on a node that was ON returns ok=true and
\* its write of nodes.json ran to its end, the persisted node N is OFF and has
\* no assigned_user; stop_node(N) on a node that was OFF returns ok=true
\* ("already stopped") and leaves the store, assigned_user included, as it was.
C4_StopClearsUser ==
    (last.call.op = "stop_node" /\ last.call.id \in DOMAIN last.pre)
        => /\ last.ok
           /\ last.pre[last.call.id].status = "on"
                => /\ last.msg = "stopped"
                   /\ last.wrote = WriteSteps
                        => /\ LoadNodes(nodesFile)[last.call.id].assigned_user = None
                           /\ LoadNodes(nodesFile)[last.call.id].status = "off"
           /\ last.pre[last.call.id].status = "off"
                => /\ last.msg = "already_stopped"
                   /\ last.wrote = 0
                   /\ LoadNodes(nodesFile) = last.pre

C4_Witness ==
    /\ last.call.op = "stop_node"
    /\ last.msg = "stopped"
    /\ last.wrote = WriteSteps
    /\ last.pre[last.call.id].assigned_user = "alice"
    /\ LoadNodes(nodesFile)[last.call.id].assigned_user = None

\* the last call is start_node(N, u) for an existing node N and a non-empty
\* username u that users.json does not hold
StartWithUnknownUser ==
    /\ last.call.op = "start_node"
    /\ last.call.id \in DOMAIN last.pre
    /\ Truthy(last.call.user)
    /\ last.call.user \notin LoadUsers(usersFile)

\* C5 as stated: for every existing node N in any status and every username u
\* not in the user collection, start_node(N, u) returns ok=false with a
\* user-not-found message and leaves N's status and assigned_user as they were.
C5_AnyStatus ==
    StartWithUnknownUser
        => /\ ~last.ok
           /\ last.msg = "user_not_found"
           /\ LoadNodes(nodesFile)[last.call.id] = last.pre[last.call.id]

\* C5 amended: for every existing node N and every non-empty username u not in
\* the user collection, start_node(N, u) writes nothing and leaves N's
\* persisted status and assigned_user as they were; it returns ok=false with a
\* user-not-found message when N is OFF, and ok=true ("already running") when
\* N is ON.
C5_UnknownUserChangesNothing ==
    StartWithUnknownUser
        => /\ last.wrote = 0
           /\ LoadNodes(nodesFile) = last.pre
           /\ last.pre[last.call.id].status = "off"
                => ~last.ok /\ last.msg = "user_not_found"
           /\ last.pre[last.call.id].status = "on"
                => last.ok /\ last.msg = "already_running"

C5_Witness ==
    /\ StartWithUnknownUser
    /\ last.pre[last.call.id].status = "off"
    /\ last.pre[last.call.id].assigned_user = "alice"
    /\ ~last.ok

\* C6: from a store in which every assigned_user names an existing user, and
\* with users.json unchanged, after any sequence of start_node, stop_node and
\* update_node_endpoint calls every assigned_user of nodes.json names a user of
\* users.json; and a start_node that writes a username found it among the
\* users it loaded.
C6_AssignedUserExists ==
    /\ initOk => NoDangling(nodesFile, usersFile)
    /\ (last.call.op = "start_node" /\ last.wrote > 0 /\ Truthy(last.call.user))
            => last.call.user \in LoadUsers(usersFile)

C6_Witness ==
    /\ initOk
    /\ calls = MaxCalls
    /\ last.call.op = "start_node"
    /\ last.call.user = "alice"
    /\ last.wrote = WriteSteps
    /\ LoadNodes(nodesFile)[last.call.id].assigned_user = "alice"
    /\ last.pre[last.call.id].assigned_user = None

-----------------------------------------------------------------------------
(* Claims on concurrent calls and on crashes (SpecRepo) *)

InCall == {t \in Threads : pc[t] # "idle"}

\* nodes.json equals the committed calls run one after another
NoLostUpdate == nodesFile = serial

\* C1: calls issued concurrently by several threads run their load, mutation
\* and save one at a time under the lock, so nodes.json always equals the
\* result of the committed calls run one after another (no update is lost),
\* and every read returns the nodes of that serial result, never a state in
\* between.
C1_Serialized ==
    /\ Cardinality(InCall) <= 1
    /\ NoLostUpdate
    /\ \A t \in Threads :
        (pc[t] = "return" /\ req[t].op \in ReadOps)
            => res[t] = ReadNodes(req[t], LoadNodes(serial))
    /\ \A t \in Threads :
        (pc[t] = "return" /\ res[t].save /\ inflight.replaced)
            => LoadNodes(nodesFile) = res[t].nodes

\* two calls of different threads have committed, the second a read or a
\* write that kept the first one's update
C1_Witness ==
    /\ calls = MaxCalls
    /\ crashedAt = "none"
    /\ pc["t2"] = "return"
    /\ req["t1"].op = "start_node" /\ res["t1"].save /\ req["t1"].id = "n2"
    /\ req["t2"].op = "update_node_endpoint" /\ inflight.replaced
    /\ LoadNodes(nodesFile)["n2"].status = "on"
    /\ LoadNodes(nodesFile)["n1"].endpoint_url = "http://e"
    /\ LoadNodes(inflight.old)["n2"].status = "on"
    /\ LoadNodes(inflight.old)["n1"].endpoint_url # "http://e"

\* C2: whatever statement of _write_json_atomic the process dies or fails at,
\* nodes.json holds the complete previous document until os.replace and the
\* complete new document after it, never a truncated or mixed one; a crash
\* between the temp-file write and the replace leaves the previous document.
C2_AtomicWrite ==
    /\ nodesFile.complete
    /\ inflight # NoWrite
        => /\ inflight.new.complete
           /\ nodesFile = IF inflight.replaced THEN inflight.new ELSE inflight.old
    /\ LoadNodes(nodesFile) # EmptyDict

\* the process died between the temp-file write and the replace
C2_Witness ==
    /\ crashedAt = "write3"
    /\ tmpFile = inflight.new
    /\ inflight.new # inflight.old
    /\ nodesFile = inflight.old
    /\ DOMAIN LoadNodes(nodesFile) = NodeIds

-----------------------------------------------------------------------------
(* Claims on the simulation loop (SpecSim, SpecSimFair) *)

\* the loop tasks with a dispatch for node n that has not settled
Outstanding(n) ==
    {l \in LoopIds : n \in DOMAIN loops[l].tasks /\ loops[l].tasks[n] = "pending"}

\* no loop task began a tick while a dispatch of its previous tick was pending
NoTickOverlapsItsLast == \A l \in LoopIds : ~loops[l].overlap

\* C7: while the scheduler is Running ticks never overlap: every dispatch of a
\* tick has settled before the next query begins, so at any moment at most one
\* dispatch is outstanding per active node with an endpoint.
C7_TicksNeverOverlap ==
    running = "True"
        => /\ NoTickOverlapsItsLast
           /\ \A n \in NodeIds : Cardinality(Outstanding(n)) <= 1

\* what holds of the code: each loop task waits for its own dispatches, and
\* with one start() no node has two dispatches outstanding
C7_WithOneStart ==
    /\ NoTickOverlapsItsLast
    /\ Cardinality(DOMAIN clients) <= 1
        => \A n \in NodeIds : Cardinality(Outstanding(n)) <= 1

\* the nodes of nodes.json, as a query found it, that are ON and have a
\* destination
Eligible(file) ==
    {id \in DOMAIN LoadNodes(file) :
        /\ LoadNodes(file)[id].status = "on"
        /\ LoadNodes(file)[id].endpoint_url # ""}

\* C8: in every tick the dispatches are exactly the nodes the repository
\* reported ON at that tick's query that have a non-empty destination: one per
\* such node, none for OFF nodes, none for ON nodes without a destination.
C8_DispatchesAreEligibleNodes ==
    \A l \in LoopIds :
        loops[l].pc \in {"gather", "sleep"}
            => DOMAIN loops[l].tasks = Eligible(loops[l].seen)

\* a tick that queried after n1 was started or stopped: n1 is ON with a
\* destination and gets a dispatch, n2 is ON without one and gets none
C8_Witness ==
    \E l \in LoopIds :
        /\ loops[l].pc = "gather"
        /\ calls > 0
        /\ loops[l].seen = nodesFile
        /\ LoadNodes(nodesFile)["n1"].status = "on"
        /\ LoadNodes(nodesFile)["n2"].status = "on"
        /\ LoadNodes(nodesFile)["n2"].endpoint_url = ""
        /\ DOMAIN loops[l].tasks = {"n1"}

Successes(tasks) == {n \in DOMAIN tasks : tasks[n] = "true"}

EndsOnlyWhenStopped ==
    \A l \in LoopIds :
        /\ loops[l].pc = "done" => loops[l].left \in {"cancel", "flag"}
        /\ loops[l].pc = "pause" => loops[l].sleep = ErrorPause

\* C10: an unexpected error raised in a tick never ends the loop: it is
\* caught and followed by the 1-unit pause, after which another tick begins
\* unless the task is cancelled or finds the running flag cleared, the only
\* two ways it terminates.
C10_ErrorNeverEndsLoop ==
    /\ []EndsOnlyWhenStopped
    /\ \A l \in LoopIds : \A b \in {0, 1} :
        (loops[l].pc = "pause" /\ loops[l].bit = b)
            ~> (loops[l].pc # "pause" \/ loops[l].bit # b)

\* the tick after an error pause raised again while the scheduler is Running:
\* the loop is in the error pause once more
C10_Witness ==
    \E l \in LoopIds :
        /\ loops[l].pc = "pause"
        /\ loops[l].sleep = ErrorPause
        /\ loops[l].bit = 0
        /\ ~loops[l].cancel
        /\ running = "True"

-----------------------------------------------------------------------------
(* Claims on start and stop (SpecSim) *)

\* a _simulation_loop task that has been created and has not ended
Live(l) == loops[l].pc \notin {"none", "done"}

\* a stop() is suspended at one of its awaits
StopPending == \E l \in LoopIds : stops[l] \in {"await_loop", "aclose"}

\* the latest stop() has returned and start() was not called since
Stopped ==
    /\ running = "False"
    /\ ~StopPending
    /\ \E l \in LoopIds : stops[l] = "returned"

\* C11: after a call to stop has returned, and until start is called again,
\* no loop task created by an earlier start is still live and no dispatch is
\* outstanding, whatever sequence of start and stop calls came before.
C11_InertAfterStop ==
    Stopped => /\ \A l \in LoopIds : ~Live(l)
               /\ \A n \in NodeIds : Outstanding(n) = {}

\* the loop tasks that are live and that no stop() has cancelled
Uncancelled == {l \in LoopIds : Live(l) /\ ~loops[l].cancel}

\* C12: calling start while the scheduler is already Running does not create a
\* second loop: after any sequence of start and stop calls at most one
\* simulation loop task is live (a task that stop() cancelled and that has not
\* yet been resumed to end is not counted).
C12_AtMostOneLoop == Cardinality(Uncancelled) <= 1

\* C13: the HTTP client is created by start and closed by stop: once the
\* scheduler is Stopped every client a start created has been closed and the
\* scheduler refers to none, and while it is Running it holds an open client.
C13_ClientOpenExactlyWhileRunning ==
    /\ Stopped => /\ \A c \in DOMAIN clients : clients[c] = "closed"
                  /\ client = NoClient
    /\ running = "True" => /\ client # NoClient
                           /\ clients[client] = "open"

-----------------------------------------------------------------------------
(* Claims on the dispatcher (SpecSend) *)

\* with whatever keywords NodeRequest is given, the except clauses turn every
\* outcome of the try block into a boolean, true exactly on a 200
HandlersAreTotal ==
    \A cl \in {NoClient, 1}, resp \in Responses,
       passed \in {PassedFields, RequiredFields} :
        /\ SendWith(cl, passed, resp).result \in {"true", "false"}
        /\ SendWith(cl, passed, resp).result = "true"
            <=> SendWith(cl, passed, resp).status = "200"

\* C14: the dispatcher's outcome is total and boolean: _send_node_request
\* returns true if and only if a response with status 200 was received, false
\* for any other status, a timeout, a network fault, an uninitialized client
\* and any unexpected fault, and no exception escapes to the fan-out.
C14_OutcomeIsBoolean ==
    /\ HandlersAreTotal
    /\ sent # NoSend
        => /\ sent.out.result \in {"true", "false"}
           /\ sent.out.result = "true" <=> sent.out.status = "200"
           /\ sent.out.status # "200" => sent.out.result = "false"
           /\ sent.client = NoClient => sent.out.result = "false"
           /\ sent.out.raised # None => sent.out.result = "false"

\* a call with a client whose try block raised an unexpected fault: the
\* result is false
C14_Witness ==
    /\ sent # NoSend
    /\ sent.client # NoClient
    /\ sent.out.raised \notin {None, "TimeoutException", "RequestError"}
    /\ sent.out.result = "false"

\* C15: each dispatcher call for an active node with a destination, made
\* while the client is initialized, performs exactly one HTTP POST to the
\* node's destination; when the destination would answer 200 the call
\* returns success.
C15_OnePostPerCall ==
    (sent # NoSend /\ sent.client # NoClient)
        => /\ sent.out.posts = 1
           /\ sent.answer = "200" => sent.out.result = "true"

-----------------------------------------------------------------------------
(* Claims on faults and frames of the repository (SpecCalls) *)

\* get_node_by_id(id) right after the last call finds a node, and the node
Found(id) == id \in DOMAIN LoadNodes(nodesFile)
GetNodeById(id) == LoadNodes(nodesFile)[id]

\* C16: whenever start_node(id, u) returns (true, "started successfully"), an
\* immediately following get_node_by_id(id) returns the node with status ON
\* and, if u was given, assigned_user = u; whenever stop_node(id) returns
\* (true, "stopped successfully"), it returns the node with status OFF and no
\* assigned_user.
C16_SuccessIsPersisted ==
    /\ (last.call.op = "start_node" /\ last.ok /\ last.msg = "started")
        => /\ Found(last.call.id)
           /\ GetNodeById(last.call.id).status = "on"
           /\ Truthy(last.call.user)
                => GetNodeById(last.call.id).assigned_user = last.call.user
    /\ (last.call.op = "stop_node" /\ last.ok /\ last.msg = "stopped")
        => /\ Found(last.call.id)
           /\ GetNodeById(last.call.id).status = "off"
           /\ GetNodeById(last.call.id).assigned_user = None

\* the list and get operations on a nodes.json that cannot be loaded
ReadsFindNothing ==
    /\ ReadNodes(Call("get_all_nodes", None, None, None), LoadNodes(nodesFile)).nodes
        = EmptyDict
    /\ GetActiveNodes(LoadNodes(nodesFile)) = {}
    /\ \A id \in IdArgs :
        ~ReadNodes(Call("get_node_by_id", id, None, None), LoadNodes(nodesFile)).ok

\* the last call was a start_node with a username
StartWithUser == last.call.op = "start_node" /\ Truthy(last.call.user)

\* C17 as stated: when the nodes file, or for a start with a username the
\* users file, cannot be loaded, start_node returns ok=false with a not-found
\* message and writes nothing.
C17_AnyStatus ==
    (StartWithUser /\ (~usersFile.complete \/ last.pre = EmptyDict))
        => /\ ~last.ok
           /\ last.msg \in {"node_not_found", "user_not_found"}
           /\ last.wrote = 0

\* C17, amended: a load fault reaches no caller and damages nothing.  When
\* nodes.json cannot be loaded the list operations return an empty collection,
\* the get operations not-found, and start_node, stop_node and
\* update_node_endpoint return not-found; when users.json cannot be loaded a
\* start_node with a username on a node that is not ON returns user not found.
\* None of them writes, and the files stay as they were.
C17_LoadFaultChangesNothing ==
    /\ ~nodesFile.complete => ReadsFindNothing
    /\ (last.call.op # "none" /\ last.pre = EmptyDict)
        => /\ ~last.ok
           /\ last.msg = "node_not_found"
           /\ last.wrote = 0
           /\ nodesFile = Unreadable
           /\ tmpFile = NoFile
    /\ (StartWithUser /\ ~usersFile.complete /\ last.call.id \in DOMAIN last.pre
            /\ last.pre[last.call.id].status # "on")
        => /\ ~last.ok
           /\ last.msg = "user_not_found"
           /\ last.wrote = 0
           /\ last.post = last.pre

\* two calls on a nodes.json that cannot be loaded, the second a start_node
\* with a username while users.json cannot be loaded either
C17_Witness ==
    /\ ~nodesFile.complete
    /\ ~usersFile.complete
    /\ prev.op = "update_node_endpoint"
    /\ StartWithUser
    /\ last.msg = "node_not_found"

\* the calls that are no-ops or that fail
NoOpOrFailed ==
    last.msg \in {"already_running", "already_stopped", "node_not_found", "user_not_found"}

\* the fields of the targeted node the last call may change
Intended(op) ==
    IF op = "update_node_endpoint" THEN {"endpoint_url"} ELSE {"status", "assigned_user"}

\* the last call changed the targeted node only, and of it the intended
\* fields only; a no-op or a failed call wrote nothing
FrameOfLast ==
    /\ DOMAIN last.post = DOMAIN last.pre
    /\ \A id \in DOMAIN last.pre :
        /\ id # last.call.id => last.post[id] = last.pre[id]
        /\ \A f \in {"status", "assigned_user", "endpoint_url"} \ Intended(last.call.op) :
             last.post[id][f] = last.pre[id][f]
    /\ NoOpOrFailed => (last.wrote = 0 /\ last.post = last.pre)

\* C19: start_node(id), stop_node(id) and update_node_endpoint(id) change only
\* the targeted node and only the intended fields (status and assigned_user
\* for start and stop, the destination for update); every other node, the set
\* of node ids and the user collection are unchanged.  Calls that are no-ops
\* or that fail perform no write at all.  (Nodes are compared as the
\* repository loads them.)
C19_MutatorFrame ==
    [][/\ FrameOfLast'
       /\ usersFile' = usersFile
       /\ NoOpOrFailed' => UNCHANGED <<nodesFile, tmpFile>>]_vars

\* a start_node that turned n1 ON and assigned alice, between two records of
\* n2 that are the same, after a call that was a no-op
C19_Witness ==
    /\ last.call.op = "start_node"
    /\ last.call.id = "n1"
    /\ last.msg = "started"
    /\ last.wrote = WriteSteps
    /\ last.pre["n1"].status = "off"
    /\ last.post["n1"] # last.pre["n1"]
    /\ last.post["n2"] = last.pre["n2"]
    /\ prev.msg = "already_stopped"

-----------------------------------------------------------------------------
(* Claims on interleaved start and stop (SpecSim, SpecStopFair) *)

\* C20: under any interleaving of start and stop coroutines on the same
\* scheduler, whenever the scheduler is Running its HTTP client is initialized
\* and open: a stop never closes or clears the client of a later start, so a
\* running loop never dispatches with a missing client.
C20_RunningHasOpenClient ==
    /\ running = "True" => client # NoClient
    /\ (running = "True" /\ client # NoClient) => clients[client] = "open"
    /\ \A l \in LoopIds :
        (loops[l].pc = "gather" /\ ~loops[l].cancel
            /\ \E n \in DOMAIN loops[l].tasks : loops[l].tasks[n] = "pending")
        => client # NoClient

\* the stop() suspended on loop task l returns in this step
StopReturns(l) == stops[l] # "returned" /\ stops'[l] = "returned"

\* C18 as stated: when a stop made while Running returns, the loop task has
\* terminated and the running flag is false.
C18_ReturnsStopped ==
    [][\A l \in LoopIds :
        StopReturns(l) => (loops'[l].pc = "done" /\ running' = "False")]_vars

\* while the scheduler is not Running no step cancels a task, suspends a
\* stop() or clears the flag: a stop() called then changes nothing
IdleStopIsNoOp ==
    NotRunning(running)
        => /\ \A l \in LoopIds : loops'[l].cancel => loops[l].cancel
           /\ \A l \in LoopIds : stops'[l] = "await_loop" => stops[l] = "await_loop"
           /\ running' = "False" => running = "False"

\* C18, amended: a stop made while Running eventually returns, whatever phase
\* the loop task is in when it is cancelled; when it returns the loop task it
\* cancelled has terminated, and the running flag is false unless start was
\* called since the stop began.  A stop called when not Running returns at
\* once and changes nothing.
C18_StopReturns ==
    /\ \A l \in LoopIds : (stops[l] = "await_loop") ~> (stops[l] = "returned")
    /\ [][\A l \in LoopIds :
            StopReturns(l) => /\ loops'[l].pc = "done"
                              /\ loop' = l => running' = "False"]_vars
    /\ [](\A l \in LoopIds : stops[l] \in {"aclose", "returned"} => loops[l].pc = "done")
    /\ [][IdleStopIsNoOp]_vars

\* a stop() made while Running has returned and start was not called since:
\* the loop task ended by cancellation and the flag is false
C18_Witness ==
    \E l \in LoopIds :
        /\ stops[l] = "returned"
        /\ loops[l].left = "cancel"
        /\ loop = l
        /\ running = "False"

=============================================================================
